---- MODULE Spec2Model ----
(***************************************************************************)
(* Model of services/api-service: the FastAPI gateway in front of the data *)
(* service.  Three routes call the data service once and translate the     *)
(* outcome (app/routers/health.py, app/routers/users.py); the root route   *)
(* answers on its own (app/main.py).  Requests are handled as coroutines   *)
(* on one event loop: a handler runs up to its `await client.get(...)`,    *)
(* is suspended while the call is in flight, and resumes with the call's   *)
(* outcome.                                                                *)
(***************************************************************************)
EXTENDS Integers, Sequences, FiniteSets, TLC

\* ------------------------------------------------------------------ bounds
NumRequests == 2        \* request slots handled concurrently
MaxUsers    == 2        \* longest JSON array the data service sends
MaxUserId   == 2        \* user_id path parameters range over 1..MaxUserId

\* ------------------------------------------------------- program constants
MinNameLen       == 1     \* models.py: Field(min_length=1)
MaxNameLen       == 100   \* models.py: Field(max_length=100)
HealthTimeout    == 2     \* health.py: httpx.AsyncClient(timeout=2.0)
UsersTimeout     == 5     \* users.py:  httpx.AsyncClient(timeout=5.0)
HTTP_200_OK                    == 200
HTTP_404_NOT_FOUND             == 404
HTTP_500_INTERNAL_SERVER_ERROR == 500
HTTP_503_SERVICE_UNAVAILABLE   == 503

Requests == 1..NumRequests
UserIds  == 1..MaxUserId

\* app/config.py: the settings object, built once at import and only read.
settings ==
    [ data_service_url |-> "http://data-service:8080",
      app_name         |-> "API Service",
      app_version      |-> "0.1.0" ]

\* ------------------------------------------------------------ JSON values
JInt(n) == [t |-> "int", v |-> n]
JStr(s) == [t |-> "str", v |-> s]
JArray(items) == [t |-> "array",  v |-> items]
JObject(obj)  == [t |-> "object", v |-> obj]
NotJson       == [t |-> "invalid"]

RECURSIVE Repeat(_, _)
Repeat(s, n) == IF n = 0 THEN "" ELSE s \o Repeat(s, n - 1)

\* Objects the data service may put in a body.
John      == [id |-> JInt(1), name |-> JStr("John Doe"),   email |-> JStr("john@example.com")]
Jane      == [id |-> JInt(2), name |-> JStr("Jane Smith"), email |-> JStr("jane@example.com")]
WithExtra == [id |-> JInt(2), name |-> JStr("Jane Smith"), email |-> JStr("jane@example.com"),
              role |-> JStr("admin")]
StrId     == [id |-> JStr("7"), name |-> JStr("Seven"),    email |-> JStr("seven@example.com")]
BadId     == [id |-> JStr("abc"), name |-> JStr("Abc"),    email |-> JStr("abc@example.com")]
EmptyName == [id |-> JInt(3), name |-> JStr(""),           email |-> JStr("e@example.com")]
FullName  == [id |-> JInt(4), name |-> JStr(Repeat("n", MaxNameLen)),
              email |-> JStr("f@example.com")]
LongName  == [id |-> JInt(5), name |-> JStr(Repeat("n", MaxNameLen + 1)),
              email |-> JStr("l@example.com")]
NoEmail   == [id |-> JInt(6), name |-> JStr("No Mail")]

UpstreamObjects ==
    {John, Jane, WithExtra, StrId, BadId, EmptyName, FullName, LongName, NoEmail}

\* The objects that the elements of an upstream array are drawn from.
UpstreamElements == {John, Jane, WithExtra, FullName, LongName}

RECURSIVE SeqsUpTo(_, _)
SeqsUpTo(S, n) ==
    IF n = 0 THEN {<<>>}
    ELSE LET shorter == SeqsUpTo(S, n - 1)
         IN  shorter \cup {Append(s, x) : s \in {q \in shorter : Len(q) = n - 1}, x \in S}

\* ------------------------------------------------ outcomes of client.get
Response(code, text, json) ==
    [kind |-> "response", status_code |-> code, text |-> text, json |-> json]
Raised(exc, msg) == [kind |-> "raise", exc |-> exc, msg |-> msg]

\* httpx.RequestError and the subclasses a failed or timed-out call raises.
RequestErrors == {"ConnectError", "ConnectTimeout", "ReadTimeout"}
IsRequestError(exc) == exc \in RequestErrors

SuccessCodes == {200, 201}
ErrorCodes   == {302, 404, 500, 503}
ErrorTexts   == {"", "User not found"}

RaisedOutcomes ==
    {Raised(e, "") : e \in RequestErrors} \cup {Raised("RuntimeError", "Connection refused")}

ErrorOutcomes == {Response(c, t, NotJson) : c \in ErrorCodes, t \in ErrorTexts}

HealthOutcomes ==
    {Response(c, "", NotJson) : c \in SuccessCodes \cup ErrorCodes} \cup RaisedOutcomes

UsersBodies ==
    {JArray(s) : s \in SeqsUpTo({JObject(o) : o \in UpstreamElements}, MaxUsers)}
        \cup {JObject(John), JObject(<<>>), NotJson}

UsersOutcomes ==
    {Response(HTTP_200_OK, "", b) : b \in UsersBodies}
        \cup {Response(201, "", NotJson)} \cup ErrorOutcomes \cup RaisedOutcomes

UserBodies ==
    {JObject(o) : o \in UpstreamObjects} \cup {JArray(<<JObject(John)>>), NotJson}

UserOutcomes ==
    {Response(HTTP_200_OK, "", b) : b \in UserBodies}
        \cup {Response(201, "", NotJson)} \cup ErrorOutcomes \cup RaisedOutcomes

\* ----------------------------------------------- results of a try block
Ok(v) == [ok |-> TRUE, value |-> v]
Exc(cls, msg) == [ok |-> FALSE, exc |-> cls, msg |-> msg]
HTTPStatusError(resp) ==
    [ok |-> FALSE, exc |-> "HTTPStatusError", msg |-> "", response |-> resp]

\* await client.get(url): the response, or the exception the call raised.
client_get(o) == IF o.kind = "raise" THEN Exc(o.exc, o.msg) ELSE Ok(o)

\* response.raise_for_status(): raises unless the status is 2xx.
raise_for_status(resp) ==
    IF resp.status_code >= 200 /\ resp.status_code <= 299
    THEN Ok(resp) ELSE HTTPStatusError(resp)

\* response.json(): the decoded body, or a decode error.
response_json(resp) ==
    IF resp.json = NotJson THEN Exc("JSONDecodeError", "Expecting value")
    ELSE Ok(resp.json)

\* ------------------------------------------------------- app/models.py
Digits == 0..9
IsNumeric(s) == \E n \in Digits : ToString(n) = s
ParseInt(s)  == CHOOSE n \in Digits : ToString(n) = s

\* Field id: int -- an integer, or a string of digits which is converted.
ValidId(obj) ==
    /\ "id" \in DOMAIN obj
    /\ \/ obj.id.t = "int"
       \/ obj.id.t = "str" /\ IsNumeric(obj.id.v)
IdOf(obj) == IF obj.id.t = "int" THEN obj.id.v ELSE ParseInt(obj.id.v)

\* Field name: str with min_length=1, max_length=100.
ValidName(obj) ==
    /\ "name" \in DOMAIN obj
    /\ obj.name.t = "str"
    /\ Len(obj.name.v) >= MinNameLen
    /\ Len(obj.name.v) <= MaxNameLen

\* Field email: str.
ValidEmail(obj) == "email" \in DOMAIN obj /\ obj.email.t = "str"

\* User(**obj): a model with exactly the three declared fields, or a
\* validation error; keys that are not fields are ignored.
User(obj) ==
    IF ValidId(obj) /\ ValidName(obj) /\ ValidEmail(obj)
    THEN Ok([id |-> IdOf(obj), name |-> obj.name.v, email |-> obj.email.v])
    ELSE Exc("ValidationError", "validation error for User")

\* HealthResponse(...)
HealthResponse(st, service, version, dss) ==
    [status |-> st, service |-> service, version |-> version,
     data_service_status |-> dss]

\* A User model as the JSON object the route's response_model emits.
UserJson(u) ==
    JObject([id |-> JInt(u.id), name |-> JStr(u.name), email |-> JStr(u.email)])

\* ------------------------------------------------ exceptions to responses
HTTPException(code, detail) == [status_code |-> code, detail |-> detail]

\* The application installs no exception handler (app/main.py), so a raised
\* HTTPException is answered by the framework's handler: the exception's
\* status, and a JSON object holding the detail.
http_exception_handler(exc) ==
    [status |-> exc.status_code, body |-> [detail |-> exc.detail]]

\* What the framework sends for a handler's result: the route's status and
\* the returned content, the answer to a raised HTTPException, or the
\* server-error answer to any other exception that leaves the handler.
Respond(result) ==
    IF result.ok THEN [status |-> HTTP_200_OK, body |-> result.value]
    ELSE IF result.exc = "HTTPException" THEN http_exception_handler(result.value)
    ELSE [status |-> HTTP_500_INTERNAL_SERVER_ERROR, body |-> [plain |-> "Internal Server Error"]]

Raise(httpexc) == [ok |-> FALSE, exc |-> "HTTPException", value |-> httpexc]

\* ------------------------------------------- app/routers/health.py
\* Variant: every 2xx answer counts as connected.
health_check_status_any2xx(o) ==
    LET got == client_get(o) IN
    IF got.ok
    THEN IF got.value.status_code \in 200..299
         THEN "connected"
         ELSE "unhealthy (status: " \o ToString(got.value.status_code) \o ")"
    ELSE IF IsRequestError(got.exc)
         THEN "unreachable (" \o got.exc \o ")"
         ELSE "error (" \o got.exc \o ")"

\* The try block and its two except clauses: the data_service_status.
health_check_status(o) ==
    LET got == client_get(o) IN
    IF got.ok
    THEN IF got.value.status_code = 200
         THEN "connected"
         ELSE "unhealthy (status: " \o ToString(got.value.status_code) \o ")"
    ELSE IF IsRequestError(got.exc)
         THEN "unreachable (" \o got.exc \o ")"
         ELSE "error (" \o got.exc \o ")"

\* Variant: the second except clause is missing, so an exception that is
\* not a RequestError leaves the handler.
health_check_result_uncaught(o) ==
    LET got == client_get(o) IN
    IF ~got.ok /\ ~IsRequestError(got.exc) THEN got
    ELSE Ok(HealthResponse("healthy", settings.app_name, settings.app_version,
                           health_check_status(o)))

health_check_result(o) ==
    Ok(HealthResponse("healthy", settings.app_name, settings.app_version,
                      health_check_status(o)))

\* ------------------------------------------- app/routers/users.py
\* Iterating the decoded body: the elements of an array, the keys of an
\* object.
KeysOf(obj) ==
    LET n == Cardinality(DOMAIN obj) IN
    IF n = 0 THEN <<>>
    ELSE LET order == CHOOSE f \in [1..n -> DOMAIN obj] :
                          \A i, j \in 1..n : i # j => f[i] # f[j]
         IN  [i \in 1..n |-> JStr(order[i])]

Iterate(json) == IF json.t = "array" THEN json.v ELSE KeysOf(json.v)

\* User(**x) needs a mapping.
UserOf(x) ==
    IF x.t = "object" THEN User(x.v)
    ELSE Exc("TypeError", "argument after ** must be a mapping")

\* Variant: the list is built back to front.
RECURSIVE BuildUsers_reversed(_)
BuildUsers_reversed(items) ==
    IF items = <<>> THEN Ok(<<>>)
    ELSE LET u == UserOf(Head(items)) IN
         IF ~u.ok THEN u
         ELSE LET rest == BuildUsers_reversed(Tail(items)) IN
              IF ~rest.ok THEN rest ELSE Ok(rest.value \o <<u.value>>)

\* Variant: an element the model rejects is skipped.
RECURSIVE BuildUsers_skip_invalid(_)
BuildUsers_skip_invalid(items) ==
    IF items = <<>> THEN Ok(<<>>)
    ELSE LET u    == UserOf(Head(items))
             rest == BuildUsers_skip_invalid(Tail(items))
         IN  IF ~u.ok THEN rest ELSE Ok(<<u.value>> \o rest.value)

\* [User(**user) for user in users_data]: the first failure ends it.
RECURSIVE BuildUsers(_)
BuildUsers(items) ==
    IF items = <<>> THEN Ok(<<>>)
    ELSE LET u == UserOf(Head(items)) IN
         IF ~u.ok THEN u
         ELSE LET rest == BuildUsers(Tail(items)) IN
              IF ~rest.ok THEN rest ELSE Ok(<<u.value>> \o rest.value)

\* get_users, the try block.
get_users_try(o) ==
    LET got == client_get(o) IN
    IF ~got.ok THEN got
    ELSE LET checked == raise_for_status(got.value) IN
         IF ~checked.ok THEN checked
         ELSE LET users_data == response_json(got.value) IN
              IF ~users_data.ok THEN users_data
              ELSE BuildUsers(Iterate(users_data.value))

\* Variant: a transport failure is reported as an internal error.
get_users_except_no503(e) ==
    IF e.exc = "HTTPStatusError"
    THEN HTTPException(e.response.status_code,
                       "Data service error: " \o e.response.text)
    ELSE HTTPException(HTTP_500_INTERNAL_SERVER_ERROR,
                       "Internal error: " \o e.msg)

\* Variant: an upstream error status is reported as 502.
get_users_except_as502(e) ==
    IF e.exc = "HTTPStatusError"
    THEN HTTPException(502, "Data service error: " \o e.response.text)
    ELSE IF IsRequestError(e.exc)
    THEN HTTPException(HTTP_503_SERVICE_UNAVAILABLE,
                       "Data service unavailable: " \o e.exc)
    ELSE HTTPException(HTTP_500_INTERNAL_SERVER_ERROR,
                       "Internal error: " \o e.msg)

\* get_users, the except clauses.
get_users_except(e) ==
    IF e.exc = "HTTPStatusError"
    THEN HTTPException(e.response.status_code,
                       "Data service error: " \o e.response.text)
    ELSE IF IsRequestError(e.exc)
    THEN HTTPException(HTTP_503_SERVICE_UNAVAILABLE,
                       "Data service unavailable: " \o e.exc)
    ELSE HTTPException(HTTP_500_INTERNAL_SERVER_ERROR,
                       "Internal error: " \o e.msg)

get_users_result(o) ==
    LET tried == get_users_try(o) IN
    IF tried.ok
    THEN Ok(JArray([i \in 1..Len(tried.value) |-> UserJson(tried.value[i])]))
    ELSE Raise(get_users_except(tried))

\* get_user, the try block.
get_user_try(o) ==
    LET got == client_get(o) IN
    IF ~got.ok THEN got
    ELSE LET checked == raise_for_status(got.value) IN
         IF ~checked.ok THEN checked
         ELSE LET user_data == response_json(got.value) IN
              IF ~user_data.ok THEN user_data
              ELSE UserOf(user_data.value)

\* Variant: no special case for 404.
get_user_except_no404(user_id, e) ==
    IF e.exc = "HTTPStatusError"
    THEN HTTPException(e.response.status_code,
                       "Data service error: " \o e.response.text)
    ELSE IF IsRequestError(e.exc)
    THEN HTTPException(HTTP_503_SERVICE_UNAVAILABLE,
                       "Data service unavailable: " \o e.exc)
    ELSE HTTPException(HTTP_500_INTERNAL_SERVER_ERROR,
                       "Internal error: " \o e.msg)

\* Variant: an upstream error status other than 404 is reported as 500.
get_user_except_as500(user_id, e) ==
    IF e.exc = "HTTPStatusError"
    THEN IF e.response.status_code = 404
         THEN HTTPException(HTTP_404_NOT_FOUND,
                            "User with ID " \o ToString(user_id) \o " not found")
         ELSE HTTPException(HTTP_500_INTERNAL_SERVER_ERROR,
                            "Data service error: " \o e.response.text)
    ELSE IF IsRequestError(e.exc)
    THEN HTTPException(HTTP_503_SERVICE_UNAVAILABLE,
                       "Data service unavailable: " \o e.exc)
    ELSE HTTPException(HTTP_500_INTERNAL_SERVER_ERROR,
                       "Internal error: " \o e.msg)

\* get_user, the except clauses.
get_user_except(user_id, e) ==
    IF e.exc = "HTTPStatusError"
    THEN IF e.response.status_code = 404
         THEN HTTPException(HTTP_404_NOT_FOUND,
                            "User with ID " \o ToString(user_id) \o " not found")
         ELSE HTTPException(e.response.status_code,
                            "Data service error: " \o e.response.text)
    ELSE IF IsRequestError(e.exc)
    THEN HTTPException(HTTP_503_SERVICE_UNAVAILABLE,
                       "Data service unavailable: " \o e.exc)
    ELSE HTTPException(HTTP_500_INTERNAL_SERVER_ERROR,
                       "Internal error: " \o e.msg)

get_user_result(user_id, o) ==
    LET tried == get_user_try(o) IN
    IF tried.ok THEN Ok(UserJson(tried.value))
    ELSE Raise(get_user_except(user_id, tried))

\* ------------------------------------------- app/main.py
root_result ==
    Ok([message |-> "Welcome to " \o settings.app_name,
        docs |-> "/docs", health |-> "/api/health"])

\* ------------------------------------------------------------------ state
\* Per request: pc is "idle" or "awaiting" (suspended in client.get); request
\* is the route and its path parameter; call is the outbound call in flight
\* (url, timeout).  sent is the response most recently written to a
\* connection, with the request it answers and the outcome of that request's
\* upstream call.
VARIABLES pc, request, call, sent

vars == <<pc, request, call, sent>>

NoRequest  == [path |-> "none"]
NoCall     == [url |-> "none"]
NoOutcome  == [kind |-> "none"]
NoSent     == [request |-> NoRequest]

Init ==
    /\ pc      = [r \in Requests |-> "idle"]
    /\ request = [r \in Requests |-> NoRequest]
    /\ call    = [r \in Requests |-> NoCall]
    /\ sent    = NoSent

\* A handler runs up to `await client.get(url)` with the client's timeout.
Await(r, req, url, timeout) ==
    /\ pc[r] = "idle"
    /\ pc'      = [pc EXCEPT ![r] = "awaiting"]
    /\ request' = [request EXCEPT ![r] = req]
    /\ call'    = [call EXCEPT ![r] = [url |-> url, timeout |-> timeout]]
    /\ UNCHANGED sent

\* The call of request r produced o, the handler ran to its end and the
\* framework wrote the response.
Resume(r, o, result) ==
    /\ pc'      = [pc EXCEPT ![r] = "idle"]
    /\ request' = [request EXCEPT ![r] = NoRequest]
    /\ call'    = [call EXCEPT ![r] = NoCall]
    /\ sent'    = [request |-> request[r], outcome |-> o,
                   response |-> Respond(result)]

health_check_await(r) ==
    Await(r, [path |-> "/api/health"],
          settings.data_service_url \o "/actuator/health", HealthTimeout)

health_check(r) ==
    /\ pc[r] = "awaiting"
    /\ request[r].path = "/api/health"
    /\ \E o \in HealthOutcomes : Resume(r, o, health_check_result(o))

get_users_await(r) ==
    Await(r, [path |-> "/api/users"],
          settings.data_service_url \o "/data/users", UsersTimeout)

get_users(r) ==
    /\ pc[r] = "awaiting"
    /\ request[r].path = "/api/users"
    /\ \E o \in UsersOutcomes : Resume(r, o, get_users_result(o))

get_user_await(r, user_id) ==
    Await(r, [path |-> "/api/users/{user_id}", user_id |-> user_id],
          settings.data_service_url \o "/data/users/" \o ToString(user_id),
          UsersTimeout)

\* Variant: the path parameter is kept in a module-level variable that the
\* latest get_user request overwrites.
get_user_shared(r) ==
    /\ pc[r] = "awaiting"
    /\ request[r].path = "/api/users/{user_id}"
    /\ LET others == {q \in Requests : q # r /\ pc[q] = "awaiting"
                                       /\ request[q].path = "/api/users/{user_id}"}
           user_id == IF others = {} THEN request[r].user_id
                      ELSE request[CHOOSE q \in others : TRUE].user_id
       IN  \E o \in UserOutcomes : Resume(r, o, get_user_result(user_id, o))

get_user(r) ==
    /\ pc[r] = "awaiting"
    /\ request[r].path = "/api/users/{user_id}"
    /\ \E o \in UserOutcomes : Resume(r, o, get_user_result(request[r].user_id, o))

\* The root route makes no call and answers at once.
root(r) ==
    /\ pc[r] = "idle"
    /\ sent' = [request |-> [path |-> "/"], outcome |-> NoOutcome,
                response |-> Respond(root_result)]
    /\ UNCHANGED <<pc, request, call>>

Next ==
    \E r \in Requests :
        \/ health_check_await(r)
        \/ health_check(r)
        \/ get_users_await(r)
        \/ get_users(r)
        \/ \E user_id \in UserIds : get_user_await(r, user_id)
        \/ get_user(r)
        \/ root(r)

Spec == Init /\ [][Next]_vars

\* ================================================================ claims
HealthPath == "/api/health"
UsersPath  == "/api/users"
UserPath   == "/api/users/{user_id}"

Answered(s) == s.request # NoRequest
IsHealth == Answered(sent) /\ sent.request.path = HealthPath
IsUsers  == Answered(sent) /\ sent.request.path = UsersPath
IsUser   == Answered(sent) /\ sent.request.path = UserPath

GotResponse  == sent.outcome.kind = "response"
GotStatus(c) == GotResponse /\ sent.outcome.status_code = c
Got2xx       == GotResponse /\ sent.outcome.status_code \in 200..299
GotHttpError == GotResponse /\ sent.outcome.status_code \notin 200..299
TransportFailed == sent.outcome.kind = "raise" /\ sent.outcome.exc \in RequestErrors
OtherException  == sent.outcome.kind = "raise" /\ sent.outcome.exc \notin RequestErrors

HasDetail   == "detail" \in DOMAIN sent.response.body
DetailIs(d) == HasDetail /\ sent.response.body.detail = d

NotFoundDetail(id) == "User with ID " \o ToString(id) \o " not found"

\* C1: the response to GetUser(id) has status 404 and detail "User with ID
\* {id} not found" exactly when its upstream call was answered with status
\* 404.
C1_NotFoundIffUpstream404 ==
    IsUser =>
        ( ( /\ sent.response.status = 404
            /\ DetailIs(NotFoundDetail(sent.request.user_id)) )
          <=> GotStatus(404) )

C1_Witness ==
    /\ IsUser /\ GotStatus(404) /\ sent.request.user_id = 2
    /\ sent.response = [status |-> 404, body |-> [detail |-> "User with ID 2 not found"]]

\* C2 as stated: the response to GetUser or ListUsers has status 503 exactly
\* when its upstream call failed at the transport level.
C2_Original_503IffTransport ==
    (IsUser \/ IsUsers) => (sent.response.status = 503 <=> TransportFailed)

\* C2 amended: the response to GetUser or ListUsers has status 503 exactly
\* when its upstream call failed at the transport level or the upstream
\* itself answered 503; it has status 503 with detail "Data service
\* unavailable: <error-kind>" exactly when the call failed at the transport
\* level.
C2_503IffTransportOrUpstream503 ==
    (IsUser \/ IsUsers) =>
        /\ sent.response.status = 503 <=> (TransportFailed \/ GotStatus(503))
        /\ TransportFailed <=>
              ( /\ sent.response.status = 503
                /\ sent.outcome.kind = "raise"
                /\ DetailIs("Data service unavailable: " \o sent.outcome.exc) )
        /\ GotStatus(503) => DetailIs("Data service error: " \o sent.outcome.text)

C2_Witness ==
    /\ IsUsers /\ TransportFailed /\ sent.outcome.exc = "ReadTimeout"
    /\ sent.response =
          [status |-> 503, body |-> [detail |-> "Data service unavailable: ReadTimeout"]]

\* C3 as stated: every failure response of GetUser and ListUsers has a body
\* with a detail and a status_code, the status_code being the HTTP status.
C3_ErrorBodyCarriesStatusCode ==
    ((IsUser \/ IsUsers) /\ sent.response.status # 200) =>
        /\ HasDetail
        /\ "status_code" \in DOMAIN sent.response.body
        /\ sent.response.body.status_code = sent.response.status

\* C4: the response to GetHealth has status 200 and status "healthy"
\* whatever its upstream call produced.
C4_HealthAlways200 ==
    IsHealth =>
        /\ sent.response.status = 200
        /\ "status" \in DOMAIN sent.response.body
        /\ sent.response.body.status = "healthy"

C4_Witness ==
    /\ IsHealth /\ OtherException
    /\ sent.response.status = 200
    /\ sent.response.body.status = "healthy"

\* C5 as stated: the response to ListUsers has status 200, 503 or 500.
C5_Original_UsersStatusSet ==
    IsUsers => sent.response.status \in {200, 503, 500}

\* C5 amended: the response to ListUsers has status 200, 503 or 500, or the
\* non-2xx status its upstream call was answered with.
C5_UsersStatusSetOrUpstream ==
    IsUsers =>
        \/ sent.response.status \in {200, 503, 500}
        \/ GotHttpError /\ sent.response.status = sent.outcome.status_code

C5_Witness ==
    IsUsers /\ GotStatus(404) /\ sent.response.status = 404

IsValidUserObject(x) ==
    /\ x.t = "object"
    /\ {"id", "name", "email"} \subseteq DOMAIN x.v
    /\ x.v.id.t = "int"
    /\ x.v.name.t = "str" /\ Len(x.v.name.v) \in 1..100
    /\ x.v.email.t = "str"

ValidUsersArray ==
    /\ Got2xx
    /\ sent.outcome.json.t = "array"
    /\ \A i \in 1..Len(sent.outcome.json.v) : IsValidUserObject(sent.outcome.json.v[i])

\* C7: the response to a ListUsers whose upstream call was answered 2xx with
\* an array of valid User objects has status 200 and an array of the same
\* length whose i-th element has the id, name and email of the i-th upstream
\* element and no other field.
C7_UsersOrderAndCountPreserved ==
    (IsUsers /\ ValidUsersArray) =>
        LET up  == sent.outcome.json.v
            out == sent.response.body
        IN  /\ sent.response.status = 200
            /\ out.t = "array"
            /\ Len(out.v) = Len(up)
            /\ \A i \in 1..Len(up) :
                  /\ out.v[i].t = "object"
                  /\ DOMAIN out.v[i].v = {"id", "name", "email"}
                  /\ out.v[i].v.id    = up[i].v.id
                  /\ out.v[i].v.name  = up[i].v.name
                  /\ out.v[i].v.email = up[i].v.email

C7_Witness ==
    /\ IsUsers
    /\ sent.outcome.kind = "response"
    /\ sent.outcome.json = JArray(<<JObject(Jane), JObject(John)>>)
    /\ sent.response = [status |-> 200, body |-> JArray(<<JObject(Jane), JObject(John)>>)]

\* C8: the data_service_status in the response to GetHealth is "connected"
\* exactly when its upstream call was answered 200, "unhealthy (status:
\* <code>)" for every other status, "unreachable (<error-kind>)" for every
\* transport failure and "error (<error-kind>)" for any other exception; it
\* is always present and never "unknown".
C8_HealthStatusMapping ==
    IsHealth =>
        /\ "data_service_status" \in DOMAIN sent.response.body
        /\ LET dss == sent.response.body.data_service_status IN
           /\ dss # "unknown"
           /\ dss = "connected" <=> GotStatus(200)
           /\ (GotResponse /\ ~GotStatus(200)) =>
                 dss = "unhealthy (status: " \o ToString(sent.outcome.status_code) \o ")"
           /\ TransportFailed => dss = "unreachable (" \o sent.outcome.exc \o ")"
           /\ OtherException  => dss = "error (" \o sent.outcome.exc \o ")"

C8_Witness ==
    /\ IsHealth /\ GotStatus(201)
    /\ sent.response.body.data_service_status = "unhealthy (status: 201)"

\* JSON that the User model rejects: not an object, a field missing, an id
\* that is neither an integer nor a string of digits, a name that is not a
\* string of 1 to 100 characters, an email that is not a string.
FailsUserValidation(x) ==
    ~ ( /\ x.t = "object"
        /\ {"id", "name", "email"} \subseteq DOMAIN x.v
        /\ (x.v.id.t = "int" \/ (x.v.id.t = "str" /\ IsNumeric(x.v.id.v)))
        /\ x.v.name.t = "str" /\ Len(x.v.name.v) \in 1..100
        /\ x.v.email.t = "str" )

UnexpectedFailure ==
    \/ OtherException
    \/ /\ Got2xx
       /\ \/ sent.outcome.json = NotJson
          \/ /\ IsUser
             /\ sent.outcome.json.t \in {"array", "object"}
             /\ FailsUserValidation(sent.outcome.json)
          \/ /\ IsUsers
             /\ sent.outcome.json.t = "array"
             /\ \E i \in 1..Len(sent.outcome.json.v) :
                   FailsUserValidation(sent.outcome.json.v[i])
          \/ /\ IsUsers
             /\ sent.outcome.json.t = "object"
             /\ DOMAIN sent.outcome.json.v # {}

\* C9: the response to a GetUser or ListUsers whose upstream call raised a
\* non-httpx exception, or was answered 2xx with a body that is not JSON or
\* that the User model rejects, has status 500 and a body that is a detail
\* (never a list of users); every non-200 response is the answer to an
\* HTTPException raised by the handler.
C9_UnexpectedFailureIs500 ==
    (IsUser \/ IsUsers) =>
        /\ UnexpectedFailure =>
              /\ sent.response.status = 500
              /\ DOMAIN sent.response.body = {"detail"}
        /\ OtherException => DetailIs("Internal error: " \o sent.outcome.msg)
        /\ sent.response.status # 200 => HasDetail

C9_Witness ==
    /\ IsUsers
    /\ sent.outcome.kind = "response"
    /\ sent.outcome.json = JArray(<<JObject(John), JObject(LongName)>>)
    /\ sent.response =
          [status |-> 500, body |-> [detail |-> "Internal error: validation error for User"]]

\* Everything the gateway holds for request r while it is being handled.
Slot(r) == <<pc[r], request[r], call[r]>>

\* C10: (a) when two responses written one after the other answer the same
\* route and argument with the same upstream outcome, they are the same
\* response, whichever requests carried them and whatever else was in
\* flight; (b) a request suspended in its upstream call can resume whatever
\* the other requests are doing; (c) every step changes the state of at most
\* one request, and an idle or suspended request's state changes only by its
\* own steps.
C10_SameInputsSameResponse ==
    (Answered(sent) /\ Answered(sent') /\ sent'.request = sent.request
            /\ sent'.outcome = sent.outcome)
        => sent'.response = sent.response

C10_NeverBlocked ==
    \A r \in Requests :
        pc[r] = "awaiting" => ENABLED (health_check(r) \/ get_users(r) \/ get_user(r))

C10_OneSlotPerStep ==
    \A r, q \in Requests :
        (r # q /\ Slot(r)' # Slot(r)) => Slot(q)' = Slot(q)

C10_RequestsIndependent ==
    /\ []C10_NeverBlocked
    /\ [][C10_SameInputsSameResponse /\ C10_OneSlotPerStep]_vars

C10_Witness ==
    \E r, q \in Requests :
        /\ r # q
        /\ IsUser /\ sent.response.status = 404
        /\ pc[r] = "idle"
        /\ pc[q] = "awaiting" /\ request[q].path = UserPath
        /\ request[q].user_id # sent.request.user_id

====
